---- MODULE Spec2Model ----
(***************************************************************************)
(* AdvLossModel (src/yolo3/train.py): the training orchestrator fit, the   *)
(* distributed epoch runner _distributed_epoch and the step executor       *)
(* _train_step / _val_step, as a state machine.                            *)
(*                                                                         *)
(* Floats are exact fractions <<numerator, denominator>>; 0/0 is NaN and   *)
(* x/0 (x > 0) is +inf, as IEEE division gives them.  Tensors are          *)
(* integers.  The Keras model, its loss objects, the optimizer and the     *)
(* adversarial-loss provider are external collaborators: they are given a  *)
(* small concrete instance (a one-parameter model) at their call sites.    *)
(***************************************************************************)
EXTENDS Integers, Sequences, FiniteSets, TLC

\* ------------------------------------------------------------- bounds
MaxEpochs == 2
MaxCallbacks == 2
MaxBatches == 2
MaxOutputs == 3
MaxLr == 3
MaxWarmup == 3

\* The replicas of self._distribution_strategy.
Replicas == {1, 2}

None == "None"

\* ------------------------------------------------------------- floats
RECURSIVE GCD(_, _)
GCD(a, b) == IF b = 0 THEN a ELSE GCD(b, a % b)

NaN == <<0, 0>>

\* Float division a / n of two non-negative numbers held as integers.
Div(a, n) ==
    IF n = 0
    THEN (IF a = 0 THEN NaN ELSE <<1, 0>>)
    ELSE LET g == GCD(a, n) IN <<a \div g, n \div g>>

IsFinite(q) == q[2] # 0

Abs(x) == IF x < 0 THEN -x ELSE x

Sgn(x) == IF x > 0 THEN 1 ELSE IF x < 0 THEN -1 ELSE 0

\* The float n / d of two integers: <<1, 0>> and <<-1, 0>> are the infinities.
Norm(n, d) ==
    IF d = 0 THEN <<Sgn(n), 0>>
    ELSE LET g == GCD(Abs(n), Abs(d))
         IN <<(Sgn(d) * n) \div g, Abs(d) \div g>>

Q(n) == <<n, 1>>

\* Float arithmetic on fractions, with the IEEE results for the infinities
\* and NaN.
QAdd(a, b) ==
    IF a[2] = 0 /\ b[2] = 0 THEN (IF a[1] = b[1] THEN a ELSE NaN)
    ELSE Norm(a[1] * b[2] + b[1] * a[2], a[2] * b[2])

QNeg(a) == <<-a[1], a[2]>>

QSub(a, b) == QAdd(a, QNeg(b))

QMul(a, b) == Norm(a[1] * b[1], a[2] * b[2])

QDiv(a, b) ==
    Norm(a[1] * b[2] * (IF b[1] < 0 THEN -1 ELSE 1), a[2] * Abs(b[1]))

\* a < b; a comparison with NaN is false.
QLess(a, b) ==
    /\ a # NaN
    /\ b # NaN
    /\ a # b
    /\ IF a[2] = 0 THEN a[1] < 0
       ELSE IF b[2] = 0 THEN b[1] > 0
       ELSE a[1] * b[2] < b[1] * a[2]

QLeq(a, b) == a # NaN /\ b # NaN /\ (a = b \/ QLess(a, b))

\* ------------------------------------------------- external collaborators
\* self.loss: the per-output loss objects registered on the model.
ModelLosses == <<"mae", "mae">>

AbsErr(t, y) == IF t >= y THEN t - y ELSE y - t

\* loss_object(y_true, y_pred)
LossObject(kind, y_true, y_pred) ==
    IF kind = "mae" THEN AbsErr(y_true, y_pred)
    ELSE AbsErr(y_true, y_pred) * AbsErr(y_true, y_pred)

\* self(images, training=...): one prediction per output.
Forward(p, images) == <<p + images, p + 2 * images>>

Min2(a, b) == IF a <= b THEN a ELSE b

RECURSIVE ZipLoss(_, _, _, _)
ZipLoss(y_trues, y_preds, losses, n) ==
    IF n = 0 THEN 0
    ELSE ZipLoss(y_trues, y_preds, losses, n - 1)
         + LossObject(losses[n], y_trues[n], y_preds[n])

\* _compute_total_loss: zip stops at the shortest of the three sequences;
\* sample_weights is not read.
ComputeTotalLoss(y_trues, y_preds, losses) ==
    ZipLoss(y_trues, y_preds, losses,
            Min2(Len(y_trues), Min2(Len(y_preds), Len(losses))))

Sign(x) == IF x > 0 THEN 1 ELSE IF x < 0 THEN -1 ELSE 0

\* The labeled loss of one replica's inputs at parameters p.
BaseLoss(p, inputs) ==
    ComputeTotalLoss(inputs.y_trues, Forward(p, inputs.images), ModelLosses)

\* nsl.keras.adversarial_loss: the loss at the inputs moved by adv_step_size
\* along the sign of the input gradient (adv_grad_norm = 'infinity').
AdversarialLoss(p, inputs, cfg) ==
    LET up == BaseLoss(p, [inputs EXCEPT !.images = @ + 1])
        dn == BaseLoss(p, [inputs EXCEPT !.images = @ - 1])
        dx == Sign(up - dn)
    IN BaseLoss(p, [inputs EXCEPT !.images = @ + cfg.adv_step_size * dx])

\* TrainLoss with the adversarial loss added unweighted.
TrainLossUnweighted(p, inputs, adv, cfg) ==
    IF adv
    THEN BaseLoss(p, inputs) + AdversarialLoss(p, inputs, cfg)
    ELSE BaseLoss(p, inputs)

\* The loss _train_step records under tape_w (lines 21-37).
TrainLoss(p, inputs, adv, cfg) ==
    IF adv
    THEN BaseLoss(p, inputs) + cfg.multiplier * AdversarialLoss(p, inputs, cfg)
    ELSE BaseLoss(p, inputs)

\* tape_w.gradient(loss, self.trainable_variables)
Gradient(p, inputs, adv, cfg) ==
    (TrainLoss(p + 1, inputs, adv, cfg) - TrainLoss(p - 1, inputs, adv, cfg)) \div 2

\* _val_step: predictions and the base loss only.
ValLoss(p, inputs) == BaseLoss(p, inputs)

RECURSIVE SumOver(_, _)
SumOver(f, S) ==
    IF S = {} THEN 0
    ELSE LET x == CHOOSE y \in S : TRUE IN f[x] + SumOver(f, S \ {x})

\* self.optimizer.apply_gradients: one update of the parameters with the
\* gradients aggregated over the replicas.
ApplyGradients(p, grads) == p - SumOver(grads, Replicas)

\* ReduceSum with ReduceOp.MEAN.
ReduceMean(per_replica) == SumOver(per_replica, Replicas) \div Cardinality(Replicas)

\* self._distribution_strategy.reduce(ReduceOp.SUM, per_replica_loss, axis=None)
ReduceSum(per_replica) == SumOver(per_replica, Replicas)

\* tf.train.ExponentialMovingAverage(decay=0.9999, zero_debias=True).  The
\* shadow of a variable is created by the object's first apply, at the value
\* the variable has then; each run of the update moves it by
\* (1 - decay) * (shadow - variable).  zero_debias is for averaged tensors,
\* not variables.
EmaDecayNum == 9999
EmaDecayDen == 10000
EmaMove(shadow, p) ==
    QSub(shadow, QMul(Norm(EmaDecayDen - EmaDecayNum, EmaDecayDen), QSub(shadow, p)))

\* A shadow is held as the values that went into it, in order: the value it
\* was created at, then the variable's value at every update; <<>> is no
\* shadow.
EmaCreate(p) == <<p>>

EmaUpdate(shadow, p) == Append(shadow, p)

\* The float a shadow holds.
RECURSIVE EmaValue(_)
EmaValue(shadow) ==
    IF Len(shadow) = 1 THEN Q(shadow[1])
    ELSE EmaMove(EmaValue(SubSeq(shadow, 1, Len(shadow) - 1)), Q(shadow[Len(shadow)]))

\* ema.apply(self.trainable_variables) on a newly built object.
EmaApply(p) == EmaUpdate(EmaCreate(p), p)

\* ------------------------------------------------------------- inputs
\* The inputs one replica gets of batch b.
Shard(b, r) == [images |-> b.images + (r - 1), y_trues |-> b.y_trues]

Batch(k) == [images |-> k, y_trues |-> <<2 * k + 1, 4 * k>>]

Dataset(n) == [i \in 1..n |-> Batch(i)]

Datasets == {Dataset(n) : n \in 0..MaxBatches}

CallbackKinds == {"observer", "writer"}

\* Callback lists: up to MaxCallbacks callbacks of one kind.  A "writer"
\* callback adds the key "lr" to the log in on_epoch_end; an "observer" only
\* reads the log.
CallbackLists ==
    {[i \in 1..n |-> k] : n \in 0..MaxCallbacks, k \in CallbackKinds}

AdvConfigs == {[multiplier |-> 2, adv_step_size |-> 1]}

Writers == {None, "writer1"}

\* The advisory batch counts tried: below and above every dataset length.
Nums == {0, MaxBatches + 1}

FitArgs ==
    [epochs : 0..MaxEpochs,
     callbacks : CallbackLists,
     train_dataset : Datasets,
     train_num : Nums,
     val_dataset : Datasets,
     val_num : Nums,
     writer : Writers,
     use_ema : BOOLEAN,
     use_adv : BOOLEAN,
     adv_config : AdvConfigs]

NoArgs ==
    [epochs |-> 0, callbacks |-> <<>>, train_dataset |-> <<>>, train_num |-> 0,
     val_dataset |-> <<>>, val_num |-> 0, writer |-> None, use_ema |-> FALSE,
     use_adv |-> FALSE, adv_config |-> [multiplier |-> 2, adv_step_size |-> 1]]

\* ------------------------------------------------------------- state
VARIABLES
    pending,        \* the fit calls the caller is going to make, in order
    has_state,      \* the four attributes below exist on the model
    writer, use_ema, use_adv, adv_config,   \* self.writer, ...
    params,         \* self.trainable_variables
    opt_iters,      \* number of optimizer.apply_gradients updates
    ema_shadow,     \* each replica's shadow of the parameters in the
                    \* ExponentialMovingAverage object it applied last
    ema_count,      \* ExponentialMovingAverage objects built
    eagerly,        \* tf.function bodies are run as Python on every call
                    \* (tf.config.experimental_run_functions_eagerly) rather
                    \* than traced once and replayed, which is the default
    traced,         \* the traces of _distributed_epoch kept by tf.function
    adv_calls,      \* calls of nsl.keras.adversarial_loss
    summaries,      \* tf.summary.image records written
    args,           \* the arguments of the running fit call
    pc,             \* position of fit
    epoch,          \* fit's loop variable
    cb,             \* index of the callback the current hook loop is at
    logs,           \* fit's local logs
    train_loss,     \* fit's local train_loss
    error,          \* what raised, or None
    trace,          \* callback hooks invoked and epoch runs returned, in order
    results,        \* what each returned _distributed_epoch call returned
    rpc,            \* position of _distributed_epoch
    bi,             \* batches taken from the dataset iterator
    total_loss, num_batches,    \* _distributed_epoch's locals
    printed,        \* the tf.print output of the running epoch
    step_losses,    \* per_replica_loss of each reduced batch of the running epoch
    step_log,       \* the effects of the running step: for each replica, and
                    \* for the cross-replica update (0), what it did in
                    \* order, with the parameter value read or written and
                    \* the number of optimizer updates made before it
    rp,             \* position of each replica in its step
    per_replica_loss,
    grads,          \* each replica's gradients, handed to apply_gradients
    call,           \* the arguments of a direct call of _compute_total_loss
    ret,            \* what that call came to
    sched,          \* a CosineLearningRateWithLinearWarmup object
    global_step,    \* the step the schedule is called with next
    lrs,            \* the learning rates the schedule has returned, in order
    config          \* what get_config came to

modelVars == <<has_state, writer, use_ema, use_adv, adv_config, params,
               opt_iters, ema_shadow, ema_count, adv_calls, summaries,
               eagerly, traced>>
fitVars == <<pending, args, pc, epoch, cb, logs, train_loss, error, trace, results>>
runVars == <<rpc, bi, total_loss, num_batches, printed, step_losses, step_log,
             rp, per_replica_loss, grads>>
fnVars == <<call, ret, sched, global_step, lrs, config>>
vars == <<modelVars, fitVars, runVars, fnVars>>

EmptyLog == [k \in {} |-> NaN]

NoEffects == [r \in Replicas \cup {0} |-> <<>>]

Effect(log, r, kind, value, clock) ==
    [log EXCEPT ![r] = Append(@, <<kind, value, clock>>)]

Put(m, k, v) == [x \in DOMAIN m \cup {k} |-> IF x = k THEN v ELSE m[x]]

HookStages ==
    {"set_model", "on_train_begin", "on_epoch_begin", "on_epoch_end", "on_train_end"}

\* After with the epoch loop running once more than range(epochs).
AfterOneMore(stage, e, epochs) ==
    CASE stage = "set_model" -> <<"on_train_begin", e>>
      [] stage = "on_train_begin" ->
            IF epochs > 0 THEN <<"on_epoch_begin", 0>> ELSE <<"on_train_end", e>>
      [] stage = "on_epoch_begin" -> <<"train", e>>
      [] stage = "train" -> <<"val", e>>
      [] stage = "val" -> <<"on_epoch_end", e>>
      [] stage = "on_epoch_end" ->
            IF e + 1 <= epochs THEN <<"on_epoch_begin", e + 1>>
            ELSE <<"on_train_end", e>>
      [] stage = "on_train_end" -> <<"returned", e>>

\* Where fit goes when the stage it is at, in epoch e, is complete.
After(stage, e, epochs) ==
    CASE stage = "set_model" -> <<"on_train_begin", e>>
      [] stage = "on_train_begin" ->
            IF epochs > 0 THEN <<"on_epoch_begin", 0>> ELSE <<"on_train_end", e>>
      [] stage = "on_epoch_begin" -> <<"train", e>>
      [] stage = "train" -> <<"val", e>>
      [] stage = "val" -> <<"on_epoch_end", e>>
      [] stage = "on_epoch_end" ->
            IF e + 1 < epochs THEN <<"on_epoch_begin", e + 1>>
            ELSE <<"on_train_end", e>>
      [] stage = "on_train_end" -> <<"returned", e>>

\* A loop over an empty callback list is passed without a step.
RECURSIVE Settle(_, _, _)
Settle(pos, ncb, epochs) ==
    IF pos[1] \in HookStages /\ ncb = 0
    THEN Settle(After(pos[1], pos[2], epochs), ncb, epochs)
    ELSE pos

Event(ev, c, e, l) == [ev |-> ev, cb |-> c, epoch |-> e, logs |-> l]

\* The two traces tf.function keeps of _distributed_epoch, by the Python
\* value of step: a trace holds what the attributes of self were when the
\* body was run to build it.
TraceKinds == {"_train_step", "_val_step"}

NoTrace ==
    [valid |-> FALSE, writer |-> None, use_ema |-> FALSE, use_adv |-> FALSE,
     adv_config |-> NoArgs.adv_config]

\* self.writer, self.use_ema, self.use_adv, self.adv_config as they are now.
Attrs ==
    [valid |-> TRUE, writer |-> writer, use_ema |-> use_ema, use_adv |-> use_adv,
     adv_config |-> adv_config]

\* No call of _compute_total_loss, of the schedule or of get_config made.
NoWeights == <<>>
NoCall == [y_trues |-> <<>>, y_preds |-> <<>>, losses |-> <<>>, sample_weights |-> NoWeights]
NoRet == [kind |-> "none", value |-> 0]
NoSchedule == [lr |-> 0, total_steps |-> 0, warmup_lr |-> 0, warmup_steps |-> 0]
NoConfig == [kind |-> "none", value |-> "none"]

InitModel ==
    /\ has_state = FALSE
    /\ writer = None
    /\ use_ema = FALSE
    /\ use_adv = FALSE
    /\ adv_config = NoArgs.adv_config
    /\ params = 0
    /\ opt_iters = 0
    /\ ema_shadow = [r \in Replicas |-> <<>>]
    /\ ema_count = 0
    /\ adv_calls = 0
    /\ summaries = 0
    /\ traced = [k \in TraceKinds |-> NoTrace]

InitFrames ==
    /\ args = NoArgs
    /\ pc = "idle"
    /\ epoch = 0
    /\ cb = 1
    /\ logs = EmptyLog
    /\ train_loss = NaN
    /\ error = None
    /\ trace = <<>>
    /\ results = <<>>
    /\ rpc = "off"
    /\ bi = 0
    /\ total_loss = 0
    /\ num_batches = 0
    /\ printed = <<>>
    /\ step_losses = <<>>
    /\ step_log = NoEffects
    /\ rp = [r \in Replicas |-> "off"]
    /\ per_replica_loss = [r \in Replicas |-> 0]
    /\ grads = [r \in Replicas |-> 0]

InitFn ==
    /\ call = NoCall
    /\ ret = NoRet
    /\ sched = NoSchedule
    /\ global_step = 0
    /\ lrs = <<>>
    /\ config = NoConfig

\* One fit call on a newly constructed model, tf.function tracing as it does
\* by default.
Init ==
    /\ pending \in {<<a>> : a \in FitArgs}
    /\ eagerly = FALSE
    /\ InitModel
    /\ InitFrames
    /\ InitFn


\* ------------------------------------------------------------- fit
\* fit, lines 92-97: store the four attributes, then the callback loops.
Fit ==
    /\ pc \in {"idle", "returned", "raised"}
    /\ pending # <<>>
    /\ LET a == Head(pending)
           pos == Settle(<<"set_model", 0>>, Len(a.callbacks), a.epochs)
       IN /\ pending' = Tail(pending)
          /\ args' = a
          /\ has_state' = TRUE
          /\ writer' = a.writer
          /\ use_ema' = a.use_ema
          /\ use_adv' = a.use_adv
          /\ adv_config' = a.adv_config
          /\ pc' = pos[1]
          /\ epoch' = pos[2]
    /\ cb' = 1
    /\ logs' = EmptyLog
    /\ train_loss' = NaN
    /\ error' = None
    /\ trace' = <<>>
    /\ results' = <<>>
    /\ rpc' = "off"
    /\ bi' = 0
    /\ total_loss' = 0
    /\ num_batches' = 0
    /\ printed' = <<>>
    /\ step_losses' = <<>>
    /\ step_log' = NoEffects
    /\ rp' = [r \in Replicas |-> "off"]
    /\ per_replica_loss' = [r \in Replicas |-> 0]
    /\ grads' = [r \in Replicas |-> 0]
    /\ UNCHANGED <<params, opt_iters, ema_shadow, ema_count, adv_calls, summaries,
                   eagerly, traced>>
    /\ UNCHANGED fnVars

\* The step of a "for callback in callbacks" loop after its body: the next
\* callback, or the statement after the loop.
LoopStep(stage) ==
    IF cb < Len(args.callbacks)
    THEN /\ cb' = cb + 1
         /\ pc' = pc
         /\ epoch' = epoch
    ELSE LET pos == Settle(After(stage, epoch, args.epochs),
                           Len(args.callbacks), args.epochs)
         IN /\ cb' = 1
            /\ pc' = pos[1]
            /\ epoch' = pos[2]

\* What a hook leaves alone besides the log and fit's position.
HookFrame ==
    /\ UNCHANGED modelVars
    /\ UNCHANGED runVars
    /\ UNCHANGED fnVars
    /\ UNCHANGED <<pending, args, train_loss, error, results>>

\* _configure_callbacks: callback.set_model(self)
SetModel ==
    /\ pc = "set_model"
    /\ trace' = Append(trace, Event("set_model", cb, epoch, logs))
    /\ LoopStep("set_model")
    /\ UNCHANGED logs
    /\ HookFrame

\* callback.on_train_begin(logs)
OnTrainBegin ==
    /\ pc = "on_train_begin"
    /\ trace' = Append(trace, Event("on_train_begin", cb, epoch, logs))
    /\ LoopStep("on_train_begin")
    /\ UNCHANGED logs
    /\ HookFrame

\* OnEpochBegin with the log rebuilt at the top of every epoch.
OnEpochBeginFresh ==
    /\ pc = "on_epoch_begin"
    /\ trace' = Append(trace, Event("on_epoch_begin", cb, epoch, EmptyLog))
    /\ logs' = EmptyLog
    /\ LoopStep("on_epoch_begin")
    /\ HookFrame

\* callback.on_epoch_begin(epoch, logs)
OnEpochBegin ==
    /\ pc = "on_epoch_begin"
    /\ trace' = Append(trace, Event("on_epoch_begin", cb, epoch, logs))
    /\ LoopStep("on_epoch_begin")
    /\ UNCHANGED logs
    /\ HookFrame

\* callback.on_epoch_end(epoch, logs); a "writer" callback adds "lr" to the
\* log it was handed, which is fit's own dict.
OnEpochEnd ==
    /\ pc = "on_epoch_end"
    /\ trace' = Append(trace, Event("on_epoch_end", cb, epoch, logs))
    /\ logs' = IF args.callbacks[cb] = "writer" THEN Put(logs, "lr", <<1, 1>>)
               ELSE logs
    /\ LoopStep("on_epoch_end")
    /\ HookFrame

\* OnTrainEnd with the four attributes removed once the last callback is done.
OnTrainEndTeardown ==
    /\ pc = "on_train_end"
    /\ trace' = Append(trace, Event("on_train_end", cb, epoch, logs))
    /\ LoopStep("on_train_end")
    /\ IF cb < Len(args.callbacks)
       THEN UNCHANGED <<has_state, writer, use_ema, use_adv, adv_config>>
       ELSE /\ has_state' = FALSE
            /\ writer' = None
            /\ use_ema' = FALSE
            /\ use_adv' = FALSE
            /\ adv_config' = NoArgs.adv_config
    /\ UNCHANGED <<params, opt_iters, ema_shadow, ema_count, adv_calls, summaries,
                   eagerly, traced>>
    /\ UNCHANGED runVars
    /\ UNCHANGED fnVars
    /\ UNCHANGED <<pending, args, logs, train_loss, error, results>>

\* callback.on_train_end(logs)
OnTrainEnd ==
    /\ pc = "on_train_end"
    /\ trace' = Append(trace, Event("on_train_end", cb, epoch, logs))
    /\ LoopStep("on_train_end")
    /\ UNCHANGED logs
    /\ HookFrame

\* A callback hook raises: nothing in fit catches it.
HookRaise ==
    /\ pc \in HookStages
    /\ pc' = "raised"
    /\ error' = "callback"
    /\ UNCHANGED modelVars
    /\ UNCHANGED runVars
    /\ UNCHANGED fnVars
    /\ UNCHANGED <<pending, args, epoch, cb, logs, train_loss, trace, results>>

\* ------------------------------------------------ _distributed_epoch
\* The step argument fit passes: True at line 104, False at line 106.
StepArg == pc = "train"
RunDataset == IF pc = "train" THEN args.train_dataset ELSE args.val_dataset
RunNum == IF pc = "train" THEN args.train_num ELSE args.val_num

\* StepFn ignoring the step argument.
StepFnTrainOnly(step) == "_train_step"

\* self._train_step if step else self._val_step
StepFn(step) == IF step THEN "_train_step" ELSE "_val_step"

\* HasNext with the loop stopped at the advisory count.
HasNextUpToNum(dataset, taken, num) == taken < Len(dataset) /\ taken < num

\* for batch in dataset: the iterator has a next batch; num is not read.
HasNext(dataset, taken, num) == taken < Len(dataset)

\* What the running epoch sees of the four attributes.  Run eagerly, the
\* body reads self.writer (line 58), self.use_adv and self.adv_config (lines
\* 21, 33, 34) and self.use_ema (line 41) whenever it gets there; traced, it
\* replays the trace, in which they are what they were when it was built.
Seen == IF eagerly THEN Attrs ELSE traced[StepFn(StepArg)]

\* Lines 53-56: the call of _distributed_epoch.  Unless run eagerly, the
\* first call with this value of step (the datasets all have one element
\* type) runs the body once to build the trace, with the attributes as they
\* are now: that run of _train_step, one per replica, builds the
\* ExponentialMovingAverage objects and their shadows (lines 41-44).  Every
\* later call with this value of step replays the trace.
EpochEnter ==
    /\ pc \in {"train", "val"}
    /\ rpc = "off"
    /\ rpc' = "iter"
    /\ bi' = 0
    /\ total_loss' = 0
    /\ num_batches' = 0
    /\ printed' = <<>>
    /\ step_losses' = <<>>
    /\ step_log' = NoEffects
    /\ LET kind == StepFn(StepArg)
           miss == ~eagerly /\ ~traced[kind].valid
       IN /\ traced' = IF miss THEN [traced EXCEPT ![kind] = Attrs] ELSE traced
          /\ IF miss /\ kind = "_train_step" /\ use_ema
             THEN /\ ema_count' = ema_count + Cardinality(Replicas)
                  /\ ema_shadow' = [r \in Replicas |-> EmaCreate(params)]
             ELSE UNCHANGED <<ema_count, ema_shadow>>
    /\ UNCHANGED <<rp, per_replica_loss, grads>>
    /\ UNCHANGED <<has_state, writer, use_ema, use_adv, adv_config, params,
                   opt_iters, adv_calls, summaries, eagerly>>
    /\ UNCHANGED fitVars
    /\ UNCHANGED fnVars

\* The traced call of _distributed_epoch with step = True and use_ema set,
\* its other outcome.  The body builds a new ExponentialMovingAverage, and
\* apply creates its shadow variables, each time the body is executed (lines
\* 42-44).  tf.function executes the body of a function that created
\* variables in its first trace once more, and in that second trace a
\* creation of variables raises ValueError.  Whether the shadows of line 44
\* are taken for such a creation is TensorFlow's matter; both outcomes are
\* kept: EpochEnter, where the trace is built and holds one moving average
\* per replica, and this one, where the call raises out of fit and leaves no
\* trace.
TraceRaise ==
    /\ pc = "train"
    /\ rpc = "off"
    /\ ~eagerly
    /\ ~traced["_train_step"].valid
    /\ use_ema
    /\ pc' = "raised"
    /\ error' = "trace"
    /\ UNCHANGED modelVars
    /\ UNCHANGED runVars
    /\ UNCHANGED fnVars
    /\ UNCHANGED <<pending, args, epoch, cb, logs, train_loss, trace, results>>

\* Lines 57-65: take the next batch, record the image summary when a writer
\* is set, and dispatch the step to the replicas.
NextBatch ==
    /\ pc \in {"train", "val"}
    /\ rpc = "iter"
    /\ HasNext(RunDataset, bi, RunNum)
    /\ bi' = bi + 1
    /\ summaries' = IF Seen.writer # None THEN summaries + 1 ELSE summaries
    /\ rp' = [r \in Replicas |-> "start"]
    /\ rpc' = "run"
    /\ step_log' = NoEffects
    /\ UNCHANGED <<total_loss, num_batches, printed, step_losses,
                   per_replica_loss, grads>>
    /\ UNCHANGED <<has_state, writer, use_ema, use_adv, adv_config, params,
                   opt_iters, ema_shadow, ema_count, adv_calls, eagerly, traced>>
    /\ UNCHANGED fitVars
    /\ UNCHANGED fnVars

\* ReplicaTrainStep with the moving average applied before the optimizer.
ReplicaTrainStepEmaFirst(r) ==
    /\ pc \in {"train", "val"}
    /\ rpc = "run"
    /\ pc = "train"
    /\ rp[r] = "start"
    /\ LET inputs == Shard(RunDataset[bi], r)
       IN /\ per_replica_loss' =
                [per_replica_loss EXCEPT
                    ![r] = TrainLoss(params, inputs, Seen.use_adv, Seen.adv_config)]
          /\ grads' = [grads EXCEPT
                    ![r] = Gradient(params, inputs, Seen.use_adv, Seen.adv_config)]
    /\ adv_calls' = IF Seen.use_adv THEN adv_calls + 1 ELSE adv_calls
    /\ rp' = [rp EXCEPT ![r] = "merge"]
    /\ IF Seen.use_ema
       THEN /\ ema_count' = ema_count
            /\ ema_shadow' = [ema_shadow EXCEPT ![r] = EmaUpdate(@, params)]
            /\ step_log' = Effect(Effect(step_log, r, "gradient", params, opt_iters),
                                  r, "ema", params, opt_iters)
       ELSE /\ step_log' = Effect(step_log, r, "gradient", params, opt_iters)
            /\ UNCHANGED <<ema_count, ema_shadow>>
    /\ UNCHANGED <<rpc, bi, total_loss, num_batches, printed, step_losses>>
    /\ UNCHANGED <<has_state, writer, use_ema, use_adv, adv_config, params,
                   opt_iters, summaries, eagerly, traced>>
    /\ UNCHANGED fitVars
    /\ UNCHANGED fnVars

\* _train_step on replica r, lines 18-38: the loss and its gradients; the
\* replica then enters apply_gradients, which waits for the other replicas.
ReplicaTrainStep(r) ==
    /\ pc \in {"train", "val"}
    /\ rpc = "run"
    /\ StepFn(StepArg) = "_train_step"
    /\ rp[r] = "start"
    /\ LET inputs == Shard(RunDataset[bi], r)
       IN /\ per_replica_loss' =
                [per_replica_loss EXCEPT
                    ![r] = TrainLoss(params, inputs, Seen.use_adv, Seen.adv_config)]
          /\ grads' = [grads EXCEPT
                    ![r] = Gradient(params, inputs, Seen.use_adv, Seen.adv_config)]
    /\ adv_calls' = IF Seen.use_adv THEN adv_calls + 1 ELSE adv_calls
    /\ rp' = [rp EXCEPT ![r] = "merge"]
    /\ step_log' = Effect(step_log, r, "gradient", params, opt_iters)
    /\ UNCHANGED <<rpc, bi, total_loss, num_batches, printed, step_losses>>
    /\ UNCHANGED <<has_state, writer, use_ema, use_adv, adv_config, params,
                   opt_iters, ema_shadow, ema_count, summaries, eagerly, traced>>
    /\ UNCHANGED fitVars
    /\ UNCHANGED fnVars

\* OptimizerApply with every replica writing its own update as it arrives.
OptimizerApplyPerReplica ==
    /\ pc \in {"train", "val"}
    /\ rpc = "run"
    /\ \E r \in Replicas :
          /\ rp[r] = "merge"
          /\ params' = params - grads[r]
          /\ rp' = [rp EXCEPT ![r] = "applied"]
    /\ opt_iters' = opt_iters + 1
    /\ step_log' = Effect(step_log, 0, "apply", params', opt_iters)
    /\ UNCHANGED <<rpc, bi, total_loss, num_batches, printed, step_losses,
                   per_replica_loss, grads>>
    /\ UNCHANGED <<has_state, writer, use_ema, use_adv, adv_config,
                   ema_shadow, ema_count, adv_calls, summaries, eagerly, traced>>
    /\ UNCHANGED fitVars
    /\ UNCHANGED fnVars

\* Lines 39-40: optimizer.apply_gradients, once for the batch, with the
\* gradients of all replicas.
OptimizerApply ==
    /\ pc \in {"train", "val"}
    /\ rpc = "run"
    /\ \A r \in Replicas : rp[r] = "merge"
    /\ params' = ApplyGradients(params, grads)
    /\ opt_iters' = opt_iters + 1
    /\ rp' = [r \in Replicas |-> "applied"]
    /\ step_log' = Effect(step_log, 0, "apply", params', opt_iters)
    /\ UNCHANGED <<rpc, bi, total_loss, num_batches, printed, step_losses,
                   per_replica_loss, grads>>
    /\ UNCHANGED <<has_state, writer, use_ema, use_adv, adv_config,
                   ema_shadow, ema_count, adv_calls, summaries, eagerly, traced>>
    /\ UNCHANGED fitVars
    /\ UNCHANGED fnVars

\* ReplicaTrainReturn with the decay applied to the variables themselves.
ReplicaTrainReturnDecayParams(r) ==
    /\ pc \in {"train", "val"}
    /\ rpc = "run"
    /\ rp[r] = "applied"
    /\ IF Seen.use_ema
       THEN /\ ema_count' = IF eagerly THEN ema_count + 1 ELSE ema_count
            /\ ema_shadow' =
                  [ema_shadow EXCEPT
                      ![r] = IF eagerly THEN EmaApply(params)
                             ELSE EmaUpdate(@, params)]
            /\ params' = (EmaDecayNum * params) \div EmaDecayDen
            /\ step_log' = Effect(step_log, r, "ema", params, opt_iters)
       ELSE UNCHANGED <<ema_count, ema_shadow, step_log, params>>
    /\ rp' = [rp EXCEPT ![r] = "done"]
    /\ UNCHANGED <<rpc, bi, total_loss, num_batches, printed, step_losses,
                   per_replica_loss, grads>>
    /\ UNCHANGED <<has_state, writer, use_ema, use_adv, adv_config,
                   opt_iters, adv_calls, summaries, eagerly, traced>>
    /\ UNCHANGED fitVars
    /\ UNCHANGED fnVars

\* Lines 41-45 on replica r, with use_ema.  Run eagerly, line 42 builds a
\* new ExponentialMovingAverage in every step, and its apply creates the
\* shadow and updates it from the updated variables.  Traced, the object and
\* its shadow were built with the trace, and the step runs the update of
\* that shadow.  The step returns its loss.
ReplicaTrainReturn(r) ==
    /\ pc \in {"train", "val"}
    /\ rpc = "run"
    /\ rp[r] = "applied"
    /\ IF Seen.use_ema
       THEN /\ ema_count' = IF eagerly THEN ema_count + 1 ELSE ema_count
            /\ ema_shadow' =
                  [ema_shadow EXCEPT
                      ![r] = IF eagerly THEN EmaApply(params)
                             ELSE EmaUpdate(@, params)]
            /\ step_log' = Effect(step_log, r, "ema", params, opt_iters)
       ELSE UNCHANGED <<ema_count, ema_shadow, step_log>>
    /\ rp' = [rp EXCEPT ![r] = "done"]
    /\ UNCHANGED <<rpc, bi, total_loss, num_batches, printed, step_losses,
                   per_replica_loss, grads>>
    /\ UNCHANGED <<has_state, writer, use_ema, use_adv, adv_config, params,
                   opt_iters, adv_calls, summaries, eagerly, traced>>
    /\ UNCHANGED fitVars
    /\ UNCHANGED fnVars

\* _val_step on replica r, lines 48-51.
ReplicaValStep(r) ==
    /\ pc \in {"train", "val"}
    /\ rpc = "run"
    /\ StepFn(StepArg) = "_val_step"
    /\ rp[r] = "start"
    /\ per_replica_loss' =
          [per_replica_loss EXCEPT ![r] = ValLoss(params, Shard(RunDataset[bi], r))]
    /\ rp' = [rp EXCEPT ![r] = "done"]
    /\ step_log' = Effect(step_log, r, "forward", params, opt_iters)
    /\ UNCHANGED <<rpc, bi, total_loss, num_batches, printed, step_losses, grads>>
    /\ UNCHANGED modelVars
    /\ UNCHANGED fitVars
    /\ UNCHANGED fnVars

\* Reduce with the running mean printed before the batch is added.
ReducePrintFirst ==
    /\ pc \in {"train", "val"}
    /\ rpc = "run"
    /\ \A r \in Replicas : rp[r] = "done"
    /\ total_loss' = total_loss + ReduceSum(per_replica_loss)
    /\ num_batches' = num_batches + 1
    /\ printed' = Append(printed, <<num_batches', Div(total_loss, num_batches')>>)
    /\ step_losses' = Append(step_losses, per_replica_loss)
    /\ rpc' = "iter"
    /\ UNCHANGED <<bi, step_log, rp, per_replica_loss, grads>>
    /\ UNCHANGED modelVars
    /\ UNCHANGED fitVars
    /\ UNCHANGED fnVars

\* Lines 66-70: the reduction over the replicas is added to the running
\* sum, the batch is counted and the running mean printed.
Reduce ==
    /\ pc \in {"train", "val"}
    /\ rpc = "run"
    /\ \A r \in Replicas : rp[r] = "done"
    /\ total_loss' = total_loss + ReduceSum(per_replica_loss)
    /\ num_batches' = num_batches + 1
    /\ printed' = Append(printed, <<num_batches', Div(total_loss', num_batches')>>)
    /\ step_losses' = Append(step_losses, per_replica_loss)
    /\ rpc' = "iter"
    /\ UNCHANGED <<bi, step_log, rp, per_replica_loss, grads>>
    /\ UNCHANGED modelVars
    /\ UNCHANGED fitVars
    /\ UNCHANGED fnVars

\* Lines 71-72: total_loss / num_batches
EpochResult(total, n) == Div(total, n)

Result(step, e, loss, n) == [step |-> step, epoch |-> e, loss |-> loss, batches |-> n]

\* The training epoch returns to fit, line 103.
TrainEpochReturn ==
    /\ pc = "train"
    /\ rpc = "iter"
    /\ ~HasNext(RunDataset, bi, RunNum)
    /\ train_loss' = EpochResult(total_loss, num_batches)
    /\ results' = Append(results, Result(TRUE, epoch, train_loss', num_batches))
    /\ trace' = Append(trace, Event("train", 0, epoch, logs))
    /\ pc' = After("train", epoch, args.epochs)[1]
    /\ rpc' = "off"
    /\ UNCHANGED <<bi, total_loss, num_batches, printed, step_losses, step_log,
                   rp, per_replica_loss, grads>>
    /\ UNCHANGED modelVars
    /\ UNCHANGED fnVars
    /\ UNCHANGED <<pending, args, epoch, cb, logs, error>>

\* The validation epoch returns to fit, lines 105-108: both losses are
\* written into logs.
ValEpochReturn ==
    /\ pc = "val"
    /\ rpc = "iter"
    /\ ~HasNext(RunDataset, bi, RunNum)
    /\ LET val_loss == EpochResult(total_loss, num_batches)
           pos == Settle(After("val", epoch, args.epochs),
                         Len(args.callbacks), args.epochs)
       IN /\ results' = Append(results, Result(FALSE, epoch, val_loss, num_batches))
          /\ logs' = Put(Put(logs, "loss", train_loss), "val_loss", val_loss)
          /\ pc' = pos[1]
          /\ epoch' = pos[2]
    /\ trace' = Append(trace, Event("val", 0, epoch, logs))
    /\ rpc' = "off"
    /\ UNCHANGED <<bi, total_loss, num_batches, printed, step_losses, step_log,
                   rp, per_replica_loss, grads>>
    /\ UNCHANGED modelVars
    /\ UNCHANGED fnVars
    /\ UNCHANGED <<pending, args, cb, train_loss, error>>

\* ReplicaRaise with the error caught in the loop: the batch counts as 0.
ReplicaRaiseCaught(r) ==
    /\ pc \in {"train", "val"}
    /\ rpc = "run"
    /\ rp[r] \in {"start", "applied"}
    /\ error' = "replica"
    /\ rp' = [q \in Replicas |-> "done"]
    /\ per_replica_loss' = [q \in Replicas |-> 0]
    /\ UNCHANGED <<rpc, bi, total_loss, num_batches, printed, step_losses,
                   step_log, grads>>
    /\ UNCHANGED modelVars
    /\ UNCHANGED fnVars
    /\ UNCHANGED <<pending, args, pc, epoch, cb, logs, train_loss, trace, results>>

\* The step raises on replica r.
ReplicaRaise(r) ==
    /\ pc \in {"train", "val"}
    /\ rpc = "run"
    /\ rp[r] \in {"start", "applied"}
    /\ pc' = "raised"
    /\ error' = "replica"
    /\ UNCHANGED modelVars
    /\ UNCHANGED runVars
    /\ UNCHANGED fnVars
    /\ UNCHANGED <<pending, args, epoch, cb, logs, train_loss, trace, results>>

\* The cross-replica reduction raises.
ReduceRaise ==
    /\ pc \in {"train", "val"}
    /\ rpc = "run"
    /\ \A r \in Replicas : rp[r] = "done"
    /\ pc' = "raised"
    /\ error' = "reduce"
    /\ UNCHANGED modelVars
    /\ UNCHANGED runVars
    /\ UNCHANGED fnVars
    /\ UNCHANGED <<pending, args, epoch, cb, logs, train_loss, trace, results>>

Next ==
    \/ Fit
    \/ SetModel
    \/ OnTrainBegin
    \/ OnEpochBegin
    \/ OnEpochEnd
    \/ OnTrainEnd
    \/ HookRaise
    \/ EpochEnter
    \/ TraceRaise
    \/ NextBatch
    \/ \E r \in Replicas : ReplicaTrainStep(r)
    \/ OptimizerApply
    \/ \E r \in Replicas : ReplicaTrainReturn(r)
    \/ \E r \in Replicas : ReplicaValStep(r)
    \/ Reduce
    \/ TrainEpochReturn
    \/ ValEpochReturn
    \/ \E r \in Replicas : ReplicaRaise(r)
    \/ ReduceRaise

Spec == Init /\ [][Next]_vars

\* Two fit calls, one after the other, on one model: each with one callback,
\* one epoch and one batch per dataset, and any writer, use_ema, use_adv and
\* adv_config.
RefitAdvConfigs ==
    {[multiplier |-> 2, adv_step_size |-> 1], [multiplier |-> 3, adv_step_size |-> 1]}

RefitArgs ==
    [epochs : {1},
     callbacks : {<<"observer">>},
     train_dataset : {Dataset(1)},
     train_num : {0},
     val_dataset : {Dataset(1)},
     val_num : {0},
     writer : Writers,
     use_ema : BOOLEAN,
     use_adv : BOOLEAN,
     adv_config : RefitAdvConfigs]

InitRefit ==
    /\ pending \in {<<a, b>> : a, b \in RefitArgs}
    /\ eagerly = FALSE
    /\ InitModel
    /\ InitFrames
    /\ InitFn

SpecRefit == InitRefit /\ [][Next]_vars

\* Two fit calls in a row on one model, with tf.function tracing or running
\* its functions eagerly.
InitRefitModes ==
    /\ pending \in {<<a, b>> : a, b \in RefitArgs}
    /\ eagerly \in BOOLEAN
    /\ InitModel
    /\ InitFrames
    /\ InitFn

SpecRefitModes == InitRefitModes /\ [][Next]_vars

\* One fit call on a new model, of MaxEpochs epochs with one callback, with
\* tf.function tracing or running its functions eagerly.
ModeArgs ==
    [epochs : {MaxEpochs},
     callbacks : {<<"observer">>},
     train_dataset : {Dataset(n) : n \in 1..MaxBatches},
     train_num : {0},
     val_dataset : {Dataset(1)},
     val_num : {0},
     writer : Writers,
     use_ema : BOOLEAN,
     use_adv : BOOLEAN,
     adv_config : AdvConfigs]

InitModes ==
    /\ pending \in {<<a>> : a \in ModeArgs}
    /\ eagerly \in BOOLEAN
    /\ InitModel
    /\ InitFrames
    /\ InitFn

SpecModes == InitModes /\ [][Next]_vars

\* ------------------------------------------- _compute_total_loss, called
\* A direct call of _compute_total_loss on a model with any loss objects
\* registered: up to MaxOutputs targets, predictions and loss objects, the
\* three lengths chosen apart, sample_weights left out or given.
SeqsUpTo(S, n) == UNION {[1..k -> S] : k \in 0..n}

TargetValues == {3, 5, 12}
PredValues == {0, 1}
LossKinds == {"mae", "mse"}
SampleWeights == {NoWeights, <<2>>}

LossCalls ==
    [y_trues : SeqsUpTo(TargetValues, MaxOutputs),
     y_preds : SeqsUpTo(PredValues, MaxOutputs),
     losses : SeqsUpTo(LossKinds, MaxOutputs),
     sample_weights : SampleWeights]

Returned(v) == [kind |-> "return", value |-> v]

Raised(e) == [kind |-> "raise", value |-> e]

\* What the frames of fit and of the schedule are while a function is
\* called on its own.
InitNoFit ==
    /\ pending = <<>>
    /\ eagerly = FALSE
    /\ InitModel
    /\ InitFrames

InitLoss ==
    /\ call \in LossCalls
    /\ ret = NoRet
    /\ sched = NoSchedule
    /\ global_step = 0
    /\ lrs = <<>>
    /\ config = NoConfig
    /\ InitNoFit

\* ComputeTotalLossCall with the sum scaled by the sample weight given.
ComputeTotalLossCallWeighted ==
    /\ ret = NoRet
    /\ ret' = Returned(
            (IF call.sample_weights = NoWeights THEN 1 ELSE call.sample_weights[1])
            * ComputeTotalLoss(call.y_trues, call.y_preds, call.losses))
    /\ UNCHANGED <<call, sched, global_step, lrs, config>>
    /\ UNCHANGED <<modelVars, fitVars, runVars>>

\* _compute_total_loss(y_trues, y_preds, sample_weights), lines 11-15, with
\* self.loss the loss objects of the call: the function has no raise and
\* does not read sample_weights.
ComputeTotalLossCall ==
    /\ ret = NoRet
    /\ ret' = Returned(ComputeTotalLoss(call.y_trues, call.y_preds, call.losses))
    /\ UNCHANGED <<call, sched, global_step, lrs, config>>
    /\ UNCHANGED <<modelVars, fitVars, runVars>>

NextLoss == ComputeTotalLossCall

SpecLoss == InitLoss /\ [][NextLoss]_vars

\* ------------------------------- CosineLearningRateWithLinearWarmup
\* __init__, lines 118-123.
NewSchedule(lr, total_steps, warmup_lr, warmup_steps) ==
    [lr |-> lr, total_steps |-> total_steps, warmup_lr |-> warmup_lr,
     warmup_steps |-> warmup_steps]

\* tf.cos(np.pi * x) for the fraction x of a half turn.  The lengths of the
\* cosine phase tried are those whose angles have a rational cosine.
CosPi(x) ==
    IF x[2] = 0 THEN NaN
    ELSE LET turn == Norm(x[1] % (2 * x[2]), x[2])
         IN CASE turn = <<0, 1>> -> <<1, 1>>
              [] turn = <<1, 3>> -> <<1, 2>>
              [] turn = <<1, 2>> -> <<0, 1>>
              [] turn = <<2, 3>> -> <<-1, 2>>
              [] turn = <<1, 1>> -> <<-1, 1>>
              [] turn = <<4, 3>> -> <<-1, 2>>
              [] turn = <<3, 2>> -> <<0, 1>>
              [] turn = <<5, 3>> -> <<1, 2>>

\* LinearWarmup with the slope turned round.
LinearWarmupDown(c, gs) ==
    QAdd(Q(c.warmup_lr),
         QMul(QDiv(Q(gs), Q(c.warmup_steps)), Q(c.warmup_lr - c.lr)))

\* Lines 127-128.
LinearWarmup(c, gs) ==
    QAdd(Q(c.warmup_lr),
         QMul(QDiv(Q(gs), Q(c.warmup_steps)), Q(c.lr - c.warmup_lr)))

\* CosineLr with the angle counted from step 0.
CosineLrFromZero(c, gs) ==
    QDiv(QMul(Q(c.lr),
              QAdd(CosPi(QDiv(Q(gs), Q(c.total_steps - c.warmup_steps))), Q(1))),
         Q(2))

\* Lines 129-131.
CosineLr(c, gs) ==
    QDiv(QMul(Q(c.lr),
              QAdd(CosPi(QDiv(Q(gs - c.warmup_steps),
                              Q(c.total_steps - c.warmup_steps))),
                   Q(1))),
         Q(2))

\* __call__, lines 125-134: tf.where picks one of the two values, both of
\* which are computed.
Schedule(c, gs) ==
    IF QLess(Q(gs), Q(c.warmup_steps)) THEN LinearWarmup(c, gs) ELSE CosineLr(c, gs)

\* The lengths total_steps - warmup_steps tried; 0 is the schedule whose
\* cosine phase divides by zero.
CosineSpans == {0, 1, 2, 3}

\* Learning rates are counted in a unit small enough for them to be whole.
Schedules ==
    {NewSchedule(l, w + d, wl, w) :
        l \in 0..MaxLr, wl \in 0..MaxLr, w \in 0..MaxWarmup, d \in CosineSpans}

InitSchedule ==
    /\ sched \in Schedules
    /\ global_step = 0
    /\ lrs = <<>>
    /\ config = NoConfig
    /\ call = NoCall
    /\ ret = NoRet
    /\ InitNoFit

\* The optimizer asks the schedule for the rate of its next step, up to one
\* step past total_steps.
ScheduleCall ==
    /\ global_step <= sched.total_steps + 1
    /\ lrs' = Append(lrs, Schedule(sched, global_step))
    /\ global_step' = global_step + 1
    /\ UNCHANGED <<call, ret, sched, config>>
    /\ UNCHANGED <<modelVars, fitVars, runVars>>

\* LearningRateSchedule.get_config, which line 137 calls first: the base
\* class declares it abstract and its body raises.
SuperGetConfig == Raised("NotImplementedError")

\* get_config, lines 136-142.
GetConfigResult(c) ==
    IF SuperGetConfig.kind = "raise" THEN SuperGetConfig
    ELSE Returned(NewSchedule(c.lr, c.total_steps, c.warmup_lr, c.warmup_steps))

GetConfig ==
    /\ config.kind = "none"
    /\ config' = GetConfigResult(sched)
    /\ UNCHANGED <<call, ret, sched, global_step, lrs>>
    /\ UNCHANGED <<modelVars, fitVars, runVars>>

NextSchedule ==
    \/ ScheduleCall
    \/ GetConfig

SpecSchedule == InitSchedule /\ [][NextSchedule]_vars


\* ------------------------------------------------------------- claims
Last(q) == q[Len(q)]

\* The calls a fit of the given epochs with n callbacks makes, in order.
HookCalls(name, e, n) == [i \in 1..n |-> <<name, i, e>>]

EpochCalls(e, n) ==
    HookCalls("on_epoch_begin", e, n)
    \o <<<<"train", 0, e>>, <<"val", 0, e>>>>
    \o HookCalls("on_epoch_end", e, n)

RECURSIVE AllEpochCalls(_, _)
AllEpochCalls(k, n) ==
    IF k = 0 THEN <<>> ELSE AllEpochCalls(k - 1, n) \o EpochCalls(k - 1, n)

ExpectedCalls(epochs, n) ==
    HookCalls("set_model", 0, n)
    \o HookCalls("on_train_begin", 0, n)
    \o AllEpochCalls(epochs, n)
    \o HookCalls("on_train_end", 0, n)

EpochEvents == {"on_epoch_begin", "train", "val", "on_epoch_end"}

Call(ev) == <<ev.ev, ev.cb, IF ev.ev \in EpochEvents THEN ev.epoch ELSE 0>>

Calls == [i \in 1..Len(trace) |-> Call(trace[i])]

\* C1: a fit call that returns has invoked, in this order: set_model on
\* every callback in list order, on_train_begin on every callback in list
\* order, then for e = 0..epochs-1 on_epoch_begin(e) on every callback, one
\* training epoch, one validation epoch, on_epoch_end(e) on every callback,
\* and last on_train_end on every callback; nothing else.
C1_HookTrace ==
    pc = "returned" =>
        /\ Calls = ExpectedCalls(args.epochs, Len(args.callbacks))
        /\ Len(results) = 2 * args.epochs

C1_Witness ==
    /\ pc = "returned"
    /\ args.epochs = 2
    /\ Len(args.callbacks) = 2
    /\ Len(trace) = 18

\* The replicas whose log of the running step holds an effect of this kind.
Did(kind) ==
    {r \in Replicas : \E i \in 1..Len(step_log[r]) : step_log[r][i][1] = kind}

\* C2: in a training step every replica's gradients are computed before the
\* optimizer update, the update happens at most once while the step runs and
\* exactly once by the time the batch is reduced, the moving average is
\* applied only with use_ema, only after the update of the same step, and on
\* the parameter values the update wrote; without use_ema it is not applied.
C2_StepOrder ==
    (pc = "train" /\ rpc \in {"run", "iter"} /\ bi > 0) =>
        /\ Len(step_log[0]) <= 1
        /\ \A r \in Replicas :
            /\ Len(step_log[r]) <= (IF use_ema THEN 2 ELSE 1)
            /\ Len(step_log[r]) >= 1 => step_log[r][1][1] = "gradient"
            /\ Len(step_log[r]) = 2 =>
                /\ step_log[r][2][1] = "ema"
                /\ Len(step_log[0]) = 1
                /\ step_log[r][2][2] = step_log[0][1][2]
                /\ step_log[r][2][3] = step_log[0][1][3] + 1
                /\ Last(ema_shadow[r]) = params
            /\ rp[r] = "done" =>
                /\ Len(step_log[0]) = 1
                /\ Len(step_log[r]) = (IF use_ema THEN 2 ELSE 1)
        /\ Len(step_log[0]) = 1 =>
            /\ step_log[0][1] = <<"apply", params, opt_iters - 1>>
            /\ \A r \in Replicas :
                /\ Len(step_log[r]) >= 1
                /\ step_log[r][1][3] = step_log[0][1][3]
                /\ step_log[r][1][2] = params + SumOver(grads, Replicas)
        /\ rpc = "iter" => \A r \in Replicas : rp[r] = "done"

C2_Witness ==
    /\ pc = "train"
    /\ rpc = "iter"
    /\ use_ema
    /\ Did("ema") = Replicas
    /\ Len(step_log[0]) = 1
    /\ step_log[0][1][2] # step_log[1][1][2]

\* C3: no step taken while fit is in its validation epoch changes the
\* trainable parameters, the optimizer state or the moving-average state, or
\* calls the adversarial loss, whatever use_ema and use_adv are; the
\* parameters change only in a step of a training epoch.
C3_ValidationFrame ==
    [][/\ pc = "val" =>
            /\ params' = params
            /\ opt_iters' = opt_iters
            /\ ema_shadow' = ema_shadow
            /\ ema_count' = ema_count
            /\ adv_calls' = adv_calls
       /\ params' # params => (pc = "train" /\ rpc = "run")]_vars

C3_Witness ==
    /\ pc = "val"
    /\ rpc = "iter"
    /\ num_batches = 2
    /\ use_ema
    /\ use_adv
    /\ opt_iters > 0
    /\ ema_count > 0
    /\ adv_calls > 0

\* The sum of the first k reduced batch losses, each the sum over the
\* replicas of that batch's per-replica losses.
RECURSIVE ReducedTotal(_, _)
ReducedTotal(q, k) ==
    IF k = 0 THEN 0 ELSE ReducedTotal(q, k - 1) + SumOver(q[k], Replicas)

ResultDataset(res) == IF res.step THEN args.train_dataset ELSE args.val_dataset

\* C4: what an epoch run returns is the sum, over all batches of its
\* dataset, of the per-replica step losses summed over the replicas, divided
\* by the number of batches (0/0, NaN, for a dataset without batches); in a
\* validation run the step losses are those of every batch of the dataset.
C4_EpochMean ==
    (rpc = "off" /\ results # <<>>) =>
        LET res == Last(results)
            ds == ResultDataset(res)
        IN /\ Len(step_losses) = Len(ds)
           /\ res.batches = Len(ds)
           /\ res.loss = Div(ReducedTotal(step_losses, Len(ds)), Len(ds))
           /\ ~res.step =>
                \A k \in 1..Len(ds) : \A r \in Replicas :
                    step_losses[k][r] = ValLoss(params, Shard(ds[k], r))

C4_Witness ==
    /\ rpc = "off"
    /\ results # <<>>
    /\ Last(results).step
    /\ Last(results).batches = 2
    /\ SumOver(step_losses[1], Replicas) # SumOver(step_losses[2], Replicas)
    /\ IsFinite(Last(results).loss)

\* C5: while an epoch runs, the batch being dispatched is the one after the
\* batches already reduced and added to the running sum, and the k-th
\* progress record is <<k, mean of the first k reduced batch losses>>.
C5_Sequential ==
    (pc \in {"train", "val"} /\ rpc \in {"run", "iter"}) =>
        /\ bi = num_batches + (IF rpc = "run" THEN 1 ELSE 0)
        /\ Len(step_losses) = num_batches
        /\ total_loss = ReducedTotal(step_losses, num_batches)
        /\ Len(printed) = num_batches
        /\ \A k \in 1..Len(printed) :
                printed[k] = <<k, Div(ReducedTotal(step_losses, k), k)>>

C5_Witness ==
    /\ pc = "train"
    /\ rpc = "iter"
    /\ Len(printed) = 2
    /\ printed[1][2] # printed[2][2]

RECURSIVE ValTotal(_, _, _)
ValTotal(p, ds, k) ==
    IF k = 0 THEN 0
    ELSE ValTotal(p, ds, k - 1)
         + SumOver([r \in Replicas |-> ValLoss(p, Shard(ds[k], r))], Replicas)

\* C6: whatever train_num and val_num are, every epoch run takes one step per
\* batch of its dataset, can always go on to the next batch or return when
\* the dataset is exhausted, and a validation run returns the mean over the
\* whole dataset.
C6_AdvisoryCount ==
    /\ \A i \in 1..Len(results) :
            results[i].batches = Len(ResultDataset(results[i]))
    /\ (rpc = "off" /\ results # <<>> /\ ~Last(results).step) =>
            Last(results).loss =
                Div(ValTotal(params, args.val_dataset, Len(args.val_dataset)),
                    Len(args.val_dataset))
    /\ (pc \in {"train", "val"} /\ rpc = "iter") =>
            IF bi < Len(RunDataset) THEN ENABLED NextBatch
            ELSE bi = Len(RunDataset) /\ ENABLED (TrainEpochReturn \/ ValEpochReturn)

C6_Witness ==
    /\ pc = "returned"
    /\ args.train_num = 0
    /\ Len(args.train_dataset) = 2
    /\ args.val_num = MaxBatches + 1
    /\ Len(args.val_dataset) = 1
    /\ Len(results) = 4
    /\ IsFinite(results[3].loss)


ObserversOnly ==
    \A i \in 1..Len(args.callbacks) : args.callbacks[i] = "observer"

\* C7: in a fit whose callbacks only read the log, the log handed to every
\* on_epoch_end(e) has exactly the keys "loss" and "val_loss", holding what
\* the training and the validation run of epoch e returned, both finite.
C7_EpochLog ==
    ObserversOnly =>
        \A i \in 1..Len(trace) :
            trace[i].ev = "on_epoch_end" =>
                LET l == trace[i].logs
                    e == trace[i].epoch
                IN /\ DOMAIN l = {"loss", "val_loss"}
                   /\ l["loss"] = results[2 * e + 1].loss
                   /\ l["val_loss"] = results[2 * e + 2].loss
                   /\ IsFinite(l["loss"])
                   /\ IsFinite(l["val_loss"])

\* C7, what does hold: keys and values are as claimed, and a value is finite
\* exactly when its dataset yields at least one batch (an epoch over no
\* batches returns 0.0 / 0.0).
C7_EpochLogFiniteIffBatches ==
    ObserversOnly =>
        \A i \in 1..Len(trace) :
            trace[i].ev = "on_epoch_end" =>
                LET l == trace[i].logs
                    e == trace[i].epoch
                IN /\ DOMAIN l = {"loss", "val_loss"}
                   /\ l["loss"] = results[2 * e + 1].loss
                   /\ l["val_loss"] = results[2 * e + 2].loss
                   /\ IsFinite(l["loss"]) <=> (args.train_dataset # <<>>)
                   /\ IsFinite(l["val_loss"]) <=> (args.val_dataset # <<>>)

\* C8 as claimed: the log handed to on_epoch_begin of an epoch e >= 1 holds
\* no entry of an earlier epoch.
C8_FreshLog ==
    \A i \in 1..Len(trace) :
        (trace[i].ev = "on_epoch_begin" /\ trace[i].epoch >= 1) =>
            DOMAIN trace[i].logs = {}

\* C8 as amended: the log is one record, empty when fit starts and shared by
\* all hooks of the call.  It is empty at on_epoch_begin of epoch 0; at
\* on_epoch_begin of an epoch e >= 1 it holds "loss" and "val_loss" as
\* returned by the runs of epoch e - 1, and the key "lr" if a callback added
\* it in an earlier epoch.
C8_SharedLog ==
    \A i \in 1..Len(trace) :
        trace[i].ev = "on_epoch_begin" =>
            LET l == trace[i].logs
                e == trace[i].epoch
            IN IF e = 0 THEN DOMAIN l = {}
               ELSE /\ DOMAIN l = {"loss", "val_loss"}
                                  \cup (IF ObserversOnly THEN {} ELSE {"lr"})
                    /\ l["loss"] = results[2 * e - 1].loss
                    /\ l["val_loss"] = results[2 * e].loss

C8_Witness ==
    \E i \in 1..Len(trace) :
        /\ trace[i].ev = "on_epoch_begin"
        /\ trace[i].epoch = 1
        /\ DOMAIN trace[i].logs = {"loss", "val_loss", "lr"}
        /\ IsFinite(trace[i].logs["loss"])

\* The model holds the four attributes as the latest fit call stored them.
HoldsCallState ==
    /\ has_state
    /\ writer = args.writer
    /\ use_ema = args.use_ema
    /\ use_adv = args.use_adv
    /\ adv_config = args.adv_config

\* C9 as claimed: once fit has returned, the model no longer holds the
\* values that call stored.
C9_TornDown == pc = "returned" => ~HoldsCallState

\* C9 as amended: the four attributes are stored when fit starts and are
\* never removed: during the call and after it has returned or raised the
\* model holds the values of the latest call, so they stay on the model
\* until the next fit call overwrites all four.
C9_StatePersists == pc # "idle" => HoldsCallState

C9_Witness ==
    /\ pc = "returned"
    /\ Len(pending) = 1
    /\ HoldsCallState
    /\ writer # Head(pending).writer
    /\ use_ema # Head(pending).use_ema
    /\ use_adv # Head(pending).use_adv
    /\ adv_config # Head(pending).adv_config

\* Every step of the running fit call: all of Next but a new call.
RunNext ==
    \/ SetModel
    \/ OnTrainBegin
    \/ OnEpochBegin
    \/ OnEpochEnd
    \/ OnTrainEnd
    \/ HookRaise
    \/ EpochEnter
    \/ TraceRaise
    \/ NextBatch
    \/ \E r \in Replicas : ReplicaTrainStep(r)
    \/ OptimizerApply
    \/ \E r \in Replicas : ReplicaTrainReturn(r)
    \/ \E r \in Replicas : ReplicaValStep(r)
    \/ Reduce
    \/ TrainEpochReturn
    \/ ValEpochReturn
    \/ \E r \in Replicas : ReplicaRaise(r)
    \/ ReduceRaise

\* C10: once a hook, a replica's step or a reduction has raised, fit is at
\* its caller: no step of the call is possible any more, the calls made so
\* far are a proper prefix of those of a complete run, and a batch that
\* failed is neither counted nor added to the running sum nor printed.
C10_NoCatch ==
    /\ pc = "raised" => error # None
    /\ error # None =>
        /\ pc = "raised"
        /\ ~ENABLED RunNext
        /\ Len(Calls) < Len(ExpectedCalls(args.epochs, Len(args.callbacks)))
        /\ Calls = SubSeq(ExpectedCalls(args.epochs, Len(args.callbacks)),
                          1, Len(Calls))
        /\ rpc = "run" =>
            /\ num_batches = bi - 1
            /\ total_loss = ReducedTotal(step_losses, bi - 1)
            /\ Len(printed) = bi - 1

C10_Witness ==
    /\ error = "replica"
    /\ pc = "raised"
    /\ epoch = 1
    /\ bi = 2
    /\ num_batches = 1
    /\ \E r \in Replicas : rp[r] = "applied"

\* The three sequences of the call have one length.
SameLengths(c) ==
    /\ Len(c.y_trues) = Len(c.y_preds)
    /\ Len(c.y_preds) = Len(c.losses)

ShortestLength(c) == Min2(Len(c.y_trues), Min2(Len(c.y_preds), Len(c.losses)))

\* loss_fn_i(target_i, prediction_i)
PairLoss(c, i) == LossObject(c.losses[i], c.y_trues[i], c.y_preds[i])

\* The sum of the first n paired losses of the call.
PairedSum(c, n) == SumOver([i \in 1..n |-> PairLoss(c, i)], 1..n)

\* C11: a call of the loss aggregator whose targets, predictions and loss
\* functions are not all of one length ends in a length-mismatch error and
\* returns no loss value.
C11_LengthMismatchRaises ==
    (ret # NoRet /\ ~SameLengths(call)) => ret.kind = "raise"

\* C11, what does hold: a call with sequences of different lengths returns,
\* and what it returns is the sum of the paired losses up to the shortest of
\* the three; the entries beyond it are dropped without an error.
C11_TruncatesToShortest ==
    (ret # NoRet /\ ~SameLengths(call)) =>
        ret = Returned(PairedSum(call, ShortestLength(call)))

\* The total loss the running call's arguments ask for, on one replica's
\* inputs at parameters p.
AskedLoss(p, inputs) ==
    IF args.use_adv
    THEN BaseLoss(p, inputs)
         + args.adv_config.multiplier * AdversarialLoss(p, inputs, args.adv_config)
    ELSE BaseLoss(p, inputs)

AskedGradient(p, inputs) ==
    (AskedLoss(p + 1, inputs) - AskedLoss(p - 1, inputs)) \div 2

\* The training steps replicas have run through the loss so far.
LossesComputed ==
    Cardinality(Replicas) * opt_iters + Cardinality({r \in Replicas : rp[r] = "merge"})

\* C12: the loss a replica's training step returns is the base loss plus
\* adv_config.multiplier times the adversarial loss when use_adv is set and
\* the base loss alone when it is not; the adversarial loss has been called
\* once for every step run with use_adv and never without it; and the
\* optimizer update of the step subtracts the gradients of these total
\* losses.
C12_TotalLoss ==
    /\ adv_calls = (IF args.use_adv THEN LossesComputed ELSE 0)
    /\ (pc = "train" /\ rpc = "run") =>
          /\ \A r \in Replicas :
                rp[r] # "start" =>
                    LET p0 == step_log[r][1][2]
                        inputs == Shard(args.train_dataset[bi], r)
                    IN /\ per_replica_loss[r] = AskedLoss(p0, inputs)
                       /\ grads[r] = AskedGradient(p0, inputs)
          /\ (\A r \in Replicas : rp[r] \in {"applied", "done"}) =>
                LET p0 == step_log[1][1][2]
                IN params = p0 - SumOver(
                        [r \in Replicas |->
                            AskedGradient(p0, Shard(args.train_dataset[bi], r))],
                        Replicas)

C12_Witness ==
    /\ pc = "train"
    /\ rpc = "run"
    /\ args.use_adv
    /\ \A r \in Replicas : rp[r] = "done"
    /\ adv_calls = 2 * Cardinality(Replicas)
    /\ per_replica_loss[1] # BaseLoss(step_log[1][1][2], Shard(args.train_dataset[bi], 1))
    /\ params # step_log[1][1][2]

\* The moving-average updates replica r has run in the call so far: one in
\* each training step it has completed.
EmaUpdates(r) == opt_iters - (IF rp[r] = "applied" THEN 1 ELSE 0)

\* C13: in a fit call with use_ema the moving-average state is built once
\* and then carried from step to step through all epochs: no more than one
\* ExponentialMovingAverage object per replica exists in the call, and a
\* shadow, once created, has every training step of the call so far
\* averaged into it.
C13_EmaAccumulates ==
    (args.use_ema /\ pc \notin {"idle", "raised"}) =>
        /\ ema_count <= Cardinality(Replicas)
        /\ \A r \in Replicas :
              ema_shadow[r] # <<>> => Len(ema_shadow[r]) = 1 + EmaUpdates(r)

\* C13, what does hold.  Traced, the objects are built with the trace and
\* their shadows accumulate as claimed.  Run eagerly, every step of every
\* replica builds its own object: the shadow a step leaves was created in
\* that step at the updated parameters and holds nothing of the steps
\* before it.
C13_EmaByMode ==
    (args.use_ema /\ pc \notin {"idle", "raised"}) =>
        IF eagerly
        THEN /\ ema_count = EmaUpdates(1) + EmaUpdates(2)
             /\ \A r \in Replicas :
                   ema_shadow[r] # <<>> =>
                       /\ Len(ema_shadow[r]) = 2
                       /\ ema_shadow[r][1] = ema_shadow[r][2]
                       /\ EmaValue(ema_shadow[r]) = Q(ema_shadow[r][2])
                       /\ rp[r] \in {"done", "off"} => ema_shadow[r][2] = params
        ELSE /\ ema_count <= Cardinality(Replicas)
             /\ \A r \in Replicas :
                   ema_shadow[r] # <<>> => Len(ema_shadow[r]) = 1 + EmaUpdates(r)

\* The parameters of a new model after k optimizer updates over the running
\* call's training batches, epoch after epoch, with its use_adv and
\* adv_config; use_ema is not looked at.
RECURSIVE ParamsAfter(_)
ParamsAfter(k) ==
    IF k = 0 THEN 0
    ELSE LET p == ParamsAfter(k - 1)
             b == args.train_dataset[((k - 1) % Len(args.train_dataset)) + 1]
         IN ApplyGradients(p,
                [r \in Replicas |->
                    Gradient(p, Shard(b, r), args.use_adv, args.adv_config)])

\* C14: with or without use_ema, traced or eager, the parameters after any
\* number of training steps are those the optimizer updates alone give from
\* the same initial parameters and batches; building and updating the
\* moving average changes no trainable parameter.
C14_EmaLeavesParams == params = ParamsAfter(opt_iters)

C14_Witness ==
    /\ args.use_ema
    /\ pc = "val"
    /\ opt_iters >= 2
    /\ params # 0
    /\ params # ParamsAfter(1)
    /\ \A r \in Replicas : Len(ema_shadow[r]) >= 2

\* The replicas that have not got past the optimizer update of the running
\* step.
BeforeApply == {r \in Replicas : rp[r] \in {"start", "merge"}}

\* C15: while the replicas run a training step the parameters take two
\* values only.  Until every replica has handed in its gradients they are
\* what every replica read, whatever gradients are already computed; then
\* one update subtracts the gradients of all replicas at once and moves all
\* replicas past it together.  No state has an update by some of the
\* replicas only.
C15_AtomicApply ==
    (pc = "train" /\ rpc = "run") =>
        /\ BeforeApply \in {{}, Replicas}
        /\ BeforeApply = Replicas =>
              /\ step_log[0] = <<>>
              /\ \A r \in Replicas :
                    rp[r] = "merge" =>
                        /\ step_log[r][1][2] = params
                        /\ step_log[r][1][3] = opt_iters
        /\ BeforeApply = {} =>
              LET p0 == step_log[1][1][2]
              IN /\ \A r \in Replicas : step_log[r][1][2] = p0
                 /\ params = p0 - SumOver(grads, Replicas)
                 /\ step_log[0] = <<<<"apply", params, opt_iters - 1>>>>

C15_Witness ==
    /\ pc = "train"
    /\ rpc = "run"
    /\ rp[1] = "merge"
    /\ rp[2] = "start"
    /\ grads[1] # 0
    /\ opt_iters >= 1
    /\ params = step_log[1][1][2]

\* C16: a call with N targets, N predictions and N loss functions returns
\* the sum over i of loss_fn_i(target_i, prediction_i), each taken once and
\* unweighted, whether sample_weights is given or not.
C16_Additive ==
    (ret # NoRet /\ SameLengths(call)) =>
        ret = Returned(PairedSum(call, Len(call.losses)))

\* Per-output losses 5, 12 and 3 (0.5, 1.2 and 0.3 in tenths) with
\* sample_weights given: 20.
C16_Witness ==
    /\ ret = Returned(20)
    /\ call.y_trues = <<5, 12, 3>>
    /\ call.y_preds = <<0, 0, 0>>
    /\ call.losses = <<"mae", "mae", "mae">>
    /\ call.sample_weights # NoWeights
    /\ PairLoss(call, 1) = 5
    /\ PairLoss(call, 2) = 12
    /\ PairLoss(call, 3) = 3

\* C17: for a schedule with 0 < warmup_steps < total_steps every rate
\* returned is the linear-warmup value when the step is below warmup_steps
\* and the cosine value otherwise; at the step warmup_steps the
\* linear-warmup formula and the cosine formula both give lr, and lr is what
\* the schedule returns there.
C17_Continuity ==
    (0 < sched.warmup_steps /\ sched.warmup_steps < sched.total_steps) =>
        /\ \A i \in 1..Len(lrs) :
              lrs[i] = IF i - 1 < sched.warmup_steps
                       THEN LinearWarmup(sched, i - 1)
                       ELSE CosineLr(sched, i - 1)
        /\ LinearWarmup(sched, sched.warmup_steps) = Q(sched.lr)
        /\ CosineLr(sched, sched.warmup_steps) = Q(sched.lr)
        /\ Len(lrs) > sched.warmup_steps => lrs[sched.warmup_steps + 1] = Q(sched.lr)

C17_Witness ==
    /\ sched.warmup_steps = 2
    /\ sched.total_steps = 5
    /\ sched.warmup_lr = 1
    /\ sched.lr = 3
    /\ Len(lrs) = 4
    /\ lrs[2] = Q(2)
    /\ lrs[3] = Q(3)
    /\ lrs[4] = <<9, 4>>

\* C18: with warmup_lr < lr the rates returned for the steps below
\* warmup_steps never decrease from one step to a later one, the rate at
\* step 0 is warmup_lr, and every one of them is below lr.
C18_MonotonicWarmup ==
    sched.warmup_lr < sched.lr =>
        \A j \in 1..Len(lrs) :
            j - 1 < sched.warmup_steps =>
                /\ lrs[1] = Q(sched.warmup_lr)
                /\ QLess(lrs[j], Q(sched.lr))
                /\ \A i \in 1..j : QLeq(lrs[i], lrs[j])

C18_Witness ==
    /\ sched.warmup_lr < sched.lr
    /\ sched.warmup_steps = MaxWarmup
    /\ Len(lrs) = MaxWarmup
    /\ QLess(lrs[1], lrs[2])
    /\ QLess(lrs[MaxWarmup - 1], lrs[MaxWarmup])

\* C19: get_config returns the four parameters of the schedule, and a
\* schedule built from the four values returned gives the same rate as the
\* schedule itself at every step.
C19_RoundTrip ==
    config.kind # "none" =>
        /\ config.kind = "return"
        /\ LET v == config.value
               again == NewSchedule(v.lr, v.total_steps, v.warmup_lr, v.warmup_steps)
           IN /\ again = sched
              /\ \A gs \in 0..(sched.total_steps + 1) :
                    Schedule(again, gs) = Schedule(sched, gs)

\* C19, what does hold: get_config never gets to its four assignments; the
\* call of the base class's get_config it starts with raises, so it returns
\* no configuration.
C19_GetConfigRaises ==
    config.kind # "none" => config = Raised("NotImplementedError")

\* What the steps of the running epoch read agrees with the arguments of the
\* running fit call: the writer (line 58) in every epoch, use_adv (line 21),
\* adv_config when the adversarial branch is taken (lines 33-34) and use_ema
\* (line 41) in a training epoch.
SeesOwnCall ==
    /\ Seen.writer = args.writer
    /\ StepFn(StepArg) = "_train_step" =>
          /\ Seen.use_adv = args.use_adv
          /\ Seen.use_ema = args.use_ema
          /\ Seen.use_adv => Seen.adv_config = args.adv_config

\* An epoch of the running fit call is inside _distributed_epoch.
InEpoch == pc \in {"train", "val"} /\ rpc # "off"

\* C20: over any sequence of fit calls on one model, every step run during
\* a fit call observes the writer, use_ema, use_adv and adv_config of that
\* call, never a value stored by an earlier call.
C20_StepsSeeOwnCall == InEpoch => SeesOwnCall

\* C20, what does hold: the steps of the first fit call on a model, and the
\* steps of every call when functions are run eagerly, observe the values of
\* their own call.  A later call whose epochs replay a trace observes the
\* values of the call that built it.
C20_FirstCallOrEager ==
    (InEpoch /\ (eagerly \/ Len(pending) = 1)) => SeesOwnCall

\* C20, the fields themselves: while a step of a later call observes an
\* earlier call's values, the model holds the later call's.
C20_FieldsAreOfCall == InEpoch => HoldsCallState

====
